---- MODULE Spec2Model ----
(***************************************************************************)
(* Model of scripts/mclain_vanillaplus_mods_update.py: the batch loop of   *)
(* main() over the rows of the mods table, the resolver                    *)
(* find_project_if_missing, the version selector get_latest_mc_and_file_id *)
(* and the version helpers parse_mc_version, max_mc_version and            *)
(* supports_flag.                                                          *)
(*                                                                         *)
(* Python str values are sequences of one-character strings, so that       *)
(* strip(), lower(), str() and the SEMVER_RE match are computed and not    *)
(* assumed.  Every Python value is a record tagged by its kind:            *)
(*   Str(s)  a str,  PyInt(n)  an int,  Tup(t)  a tuple,  None,            *)
(*   NaN     the float nan pandas loads for an empty cell of a column it   *)
(*           keeps as object/float,                                        *)
(*   NA      the pd.NA of a column converted with astype("string").        *)
(***************************************************************************)
EXTENDS Integers, Sequences, FiniteSets, TLC

VARIABLES
    CURSEFORGE_API_KEY, \* the credential read from the environment
    input,              \* the rows of the input CSV as read_csv loads them
    df,                 \* the DataFrame main() mutates
    pc,                 \* position of main()
    idx,                \* row of df the loop is at (1-based)
    source,             \* main()'s local source
    project_id,         \* main()'s local project_id
    match,              \* what find_project_if_missing returned for this row
    latest_mc,          \* main()'s local latest_mc
    best_file_id,       \* main()'s local best_file_id
    output,             \* the rows to_csv wrote, <<>> before the write
    writes,             \* number of to_csv calls that wrote the output
    hist,               \* per row: what happened to it in this run
    files,              \* SpecSel: the game version lists a provider returned
    selected            \* SpecSel: the files and what the selector returned

vars == <<CURSEFORGE_API_KEY, input, df, pc, idx, source, project_id, match,
          latest_mc, best_file_id, output, writes, hist, files, selected>>

-----------------------------------------------------------------------------
(* Python values *)

Str(s) == [k |-> "str", s |-> s]
PyInt(n) == [k |-> "int", n |-> n]
None == [k |-> "None"]
NaN == [k |-> "nan"]
NA == [k |-> "NA"]
Tup(t) == [k |-> "tuple", t |-> t]

IsStr(v) == v.k = "str"

\* bool(v): a float nan is non-zero, hence true; bool(pd.NA) raises and is
\* never evaluated by the code on a string-dtype column.
Truthy(v) ==
    CASE v.k = "None" -> FALSE
      [] v.k = "nan" -> TRUE
      [] v.k = "str" -> v.s # <<>>
      [] v.k = "int" -> v.n # 0
      [] v.k = "tuple" -> v.t # <<>>

\* v or d
PyOr(v, d) == IF Truthy(v) THEN v ELSE d

\* pd.isna(v)
isna(v) == v.k \in {"nan", "NA", "None"}

Digits == <<"0", "1", "2", "3", "4", "5", "6", "7", "8", "9">>

IsDigit(c) == c \in {"0", "1", "2", "3", "4", "5", "6", "7", "8", "9"}

DigitVal(c) == (CHOOSE i \in 1..10 : Digits[i] = c) - 1

RECURSIVE DecStr(_)
\* str(n) of a non-negative int
DecStr(n) ==
    IF n < 10 THEN <<Digits[n + 1]>>
    ELSE DecStr(n \div 10) \o <<Digits[(n % 10) + 1]>>

\* str(v)
PyStr(v) ==
    CASE v.k = "str" -> v.s
      [] v.k = "int" -> DecStr(v.n)
      [] v.k = "nan" -> <<"n", "a", "n">>
      [] v.k = "None" -> <<"N", "o", "n", "e">>
      [] v.k = "NA" -> <<"<", "N", "A", ">">>

Whitespace == {" ", "\t", "\n"}

RECURSIVE LStrip(_)
LStrip(s) ==
    IF s # <<>> /\ Head(s) \in Whitespace THEN LStrip(Tail(s)) ELSE s

RECURSIVE RStrip(_)
RStrip(s) ==
    IF s # <<>> /\ s[Len(s)] \in Whitespace
    THEN RStrip(SubSeq(s, 1, Len(s) - 1))
    ELSE s

\* s.strip()
Strip(s) == RStrip(LStrip(s))

UpperCase == <<"A", "B", "C", "D", "E", "F", "G", "H", "I", "J", "K", "L", "M",
               "N", "O", "P", "Q", "R", "S", "T", "U", "V", "W", "X", "Y", "Z">>

LowerCase == <<"a", "b", "c", "d", "e", "f", "g", "h", "i", "j", "k", "l", "m",
               "n", "o", "p", "q", "r", "s", "t", "u", "v", "w", "x", "y", "z">>

LowerChar(c) ==
    IF \E i \in 1..26 : UpperCase[i] = c
    THEN LowerCase[CHOOSE i \in 1..26 : UpperCase[i] = c]
    ELSE c

\* s.lower()
Lower(s) == [i \in 1..Len(s) |-> LowerChar(s[i])]

\* int(s) succeeds: optional sign, then decimal digits
IntParsable(s) ==
    LET t == Strip(s)
        d == IF t # <<>> /\ t[1] \in {"+", "-"} THEN Tail(t) ELSE t
    IN  d # <<>> /\ \A i \in 1..Len(d) : IsDigit(d[i])

-----------------------------------------------------------------------------
(* Version parsing *)

FLAG_MAJOR_MINOR == <<1, 21>>

RECURSIVE SplitDots(_, _, _)
\* s.split("."), with cur the part being read and acc the parts read
SplitDots(s, cur, acc) ==
    IF s = <<>> THEN Append(acc, cur)
    ELSE IF Head(s) = "." THEN SplitDots(Tail(s), <<>>, Append(acc, cur))
    ELSE SplitDots(Tail(s), Append(cur, Head(s)), acc)

AllDigits(p) == p # <<>> /\ \A i \in 1..Len(p) : IsDigit(p[i])

RECURSIVE DigitsVal(_, _)
\* int() of a run of digits, acc the value read so far
DigitsVal(p, acc) ==
    IF p = <<>> THEN acc ELSE DigitsVal(Tail(p), 10 * acc + DigitVal(Head(p)))

\* SEMVER_RE = ^(\d+)\.(\d+)(?:\.(\d+))?$ matches the string whose parts
\* between dots are parts
SEMVER_RE(parts) ==
    /\ Len(parts) \in {2, 3}
    /\ \A i \in 1..Len(parts) : AllDigits(parts[i])

\* parse_mc_version(v): the triple, or None
parse_mc_version(v) ==
    LET s == Strip(PyOr(v, Str(<<>>)).s)
        parts == SplitDots(s, <<>>, <<>>)
    IN  IF ~SEMVER_RE(parts) THEN None
        ELSE Tup(<<DigitsVal(parts[1], 0),
                   DigitsVal(parts[2], 0),
                   IF Len(parts) = 3 THEN DigitsVal(parts[3], 0) ELSE 0>>)

\* Python's t >= u on tuples of equal length
TupGE(t, u) ==
    \/ t = u
    \/ \E i \in 1..Len(t) :
          /\ \A j \in 1..(i - 1) : t[j] = u[j]
          /\ t[i] > u[i]

\* a comparison that also accepts an equal tuple, so that the last seen wins
TupGT_or_equal(t, u) == TupGE(t, u)

\* Python's t > u on tuples of equal length
TupGT(t, u) ==
    \E i \in 1..Len(t) :
        /\ \A j \in 1..(i - 1) : t[j] = u[j]
        /\ t[i] > u[i]

RECURSIVE MaxLoop(_, _, _, _)
\* the for loop of max_mc_version from position i on
MaxLoop(versions, i, best_tup, best_str) ==
    IF i > Len(versions) THEN best_str
    ELSE LET v == versions[i]
             t == parse_mc_version(v)
         IN  IF t = None THEN MaxLoop(versions, i + 1, best_tup, best_str)
             ELSE IF best_tup = None \/ TupGT(t.t, best_tup.t)
                  THEN MaxLoop(versions, i + 1, t, v)
                  ELSE MaxLoop(versions, i + 1, best_tup, best_str)

\* max_mc_version(versions): the highest version string, or None
max_mc_version(versions) == MaxLoop(versions, 1, None, None)

\* a threshold test with > where the code has >=
supports_flag_strict(v) ==
    IF ~Truthy(v) THEN FALSE
    ELSE LET t == parse_mc_version(v)
         IN  IF t = None THEN FALSE
             ELSE TupGT(<<t.t[1], t.t[2]>>, FLAG_MAJOR_MINOR)

\* supports_flag(v)
supports_flag(v) ==
    IF ~Truthy(v) THEN FALSE
    ELSE LET t == parse_mc_version(v)
         IN  IF t = None THEN FALSE
             ELSE TupGE(<<t.t[1], t.t[2]>>, FLAG_MAJOR_MINOR)

-----------------------------------------------------------------------------
(* Provider responses.  A response is what the HTTP call gave: ok = FALSE   *)
(* stands for every way requests.get / raise_for_status / r.json() raises.  *)

Raises == [ok |-> FALSE]

Ok(data) == [ok |-> TRUE, data |-> data]

\* result of a call that may raise
Raised == [raised |-> TRUE]

Returned(v) == [raised |-> FALSE, value |-> v]

\* a provider that counts as enabled whatever the credential
curseforge_enabled_always == TRUE

\* curseforge_enabled()
curseforge_enabled == Truthy(CURSEFORGE_API_KEY)

\* cf_search_mod(name) on the response resp: data[0] if data else None
cf_search_mod(resp) ==
    IF ~resp.ok THEN Raised
    ELSE Returned(IF resp.data # <<>> THEN resp.data[1] ELSE None)

\* mr_search_mod(name) on the response resp: hits[0] if hits else None
mr_search_mod(resp) ==
    IF ~resp.ok THEN Raised
    ELSE Returned(IF resp.data # <<>> THEN resp.data[1] ELSE None)

\* cf_get_files(mod_id) on the response resp
cf_get_files(resp) == IF ~resp.ok THEN Raised ELSE Returned(resp.data)

\* mr_get_versions(project_id) on the response resp
mr_get_versions(resp) == IF ~resp.ok THEN Raised ELSE Returned(resp.data)

\* MatchResult(source, project_id, url, author)
MatchResult(s, p, u, a) ==
    [source |-> s, project_id |-> p, url |-> u, author |-> a]

CurseForge == <<"C", "u", "r", "s", "e", "F", "o", "r", "g", "e">>

Modrinth == <<"M", "o", "d", "r", "i", "n", "t", "h">>

MR_URL_PREFIX ==
    <<"h", "t", "t", "p", "s", ":", "/", "/", "m", "o", "d", "r", "i", "n",
      "t", "h", ".", "c", "o", "m", "/", "m", "o", "d", "/">>

\* the MatchResult find_project_if_missing builds from a CurseForge hit
CfMatch(hit) ==
    LET links == hit.links
        authors == hit.authors
        author == IF authors # <<>> THEN authors[1].name ELSE None
    IN  MatchResult(CurseForge, PyStr(hit.id),
                    IF links = None THEN None ELSE links.websiteUrl,
                    author)

\* the MatchResult find_project_if_missing builds from a Modrinth hit
MrMatch(hit) ==
    LET slug == hit.slug
        url == IF Truthy(slug) THEN Str(MR_URL_PREFIX \o slug.s) ELSE None
    IN  MatchResult(Modrinth, PyStr(hit.project_id), url, hit.author)

-----------------------------------------------------------------------------
(* Version selector *)

\* f.get("gameVersions") or [] for a CurseForge file,
\* v.get("game_versions") or [] for a Modrinth version
GameVersions(f) ==
    IF "gameVersions" \in DOMAIN f THEN f.gameVersions ELSE f.game_versions

\* [v for v in gvs if parse_mc_version(v)]
Parsable(gvs) == SelectSeq(gvs, LAMBDA v : parse_mc_version(v) # None)

RECURSIVE BestLoop(_, _, _, _, _)
\* the for loop over the files/versions of get_latest_mc_and_file_id from
\* position i on; the result is the pair (best_mc_str, best_file_id)
BestLoop(fs, i, best_mc_tup, best_mc_str, best_id) ==
    IF i > Len(fs) THEN <<best_mc_str, best_id>>
    ELSE LET mc == max_mc_version(Parsable(GameVersions(fs[i])))
             t == parse_mc_version(mc)
         IN  IF ~Truthy(mc) \/ t = None
             THEN BestLoop(fs, i + 1, best_mc_tup, best_mc_str, best_id)
             ELSE IF best_mc_tup = None \/ TupGT(t.t, best_mc_tup.t)
                  THEN BestLoop(fs, i + 1, t, mc, Str(PyStr(fs[i].id)))
                  ELSE BestLoop(fs, i + 1, best_mc_tup, best_mc_str, best_id)

\* get_latest_mc_and_file_id(src, pid) when the list call, if one is made,
\* gets the response resp.  call names the list endpoint that was called.
get_latest_mc_and_file_id(src, pid, resp) ==
    IF src = CurseForge /\ curseforge_enabled
    THEN IF ~IntParsable(pid) THEN [raised |-> TRUE, call |-> "none"]
         ELSE LET r == cf_get_files(resp)
              IN  IF r.raised THEN [raised |-> TRUE, call |-> "cf"]
                  ELSE [raised |-> FALSE, call |-> "cf",
                        value |-> BestLoop(r.value, 1, None, None, None)]
    ELSE IF src = Modrinth
    THEN LET r == mr_get_versions(resp)
         IN  IF r.raised THEN [raised |-> TRUE, call |-> "mr"]
             ELSE [raised |-> FALSE, call |-> "mr",
                   value |-> BestLoop(r.value, 1, None, None, None)]
    ELSE [raised |-> FALSE, call |-> "none", value |-> <<None, None>>]

-----------------------------------------------------------------------------
(* The table *)

MaxRows == 2

FLAG_VALUE == <<"1", ".", "2", "1", ".", "x">>

\* the cells of one CSV line as read_csv loads them: an empty cell is NaN
Row(name, src, pid, url, author, latest, fid, flag) ==
    [mod_name |-> name, source |-> src, project_id |-> pid, url |-> url,
     author |-> author, latest_version_available |-> latest,
     file_id |-> fid, compatibility_flag |-> flag]

ExampleMod == Str(<<"E", "x", "a", "m", "p", "l", "e", "M", "o", "d">>)

OldUrl == Str(<<"h", "t", "t", "p", ":", "/", "/", "o", "l", "d">>)

OldAuthor == Str(<<"B", "o", "b">>)

OldLatest == Str(<<"1", ".", "2", "0", ".", "4">>)

OldFileId == Str(<<"f", "0">>)

Blank == Str(<<" ", " ">>)

\* the rows a table is made of: every kind of name cell, of identifier and of
\* url/author cell the loop distinguishes
InputRows ==
    { \* a named mod, every other cell empty
      Row(ExampleMod, NaN, NaN, NaN, NaN, NaN, NaN, NaN),
      \* placeholder identifier, url and author filled in, values of an
      \* earlier run
      Row(ExampleMod, NaN, Str(<<"N", "o", "n", "e", " ">>), OldUrl,
          OldAuthor, OldLatest, OldFileId, Str(FLAG_VALUE)),
      \* name of blanks only
      Row(Blank, NaN, NaN, NaN, NaN, OldLatest, OldFileId, Str(FLAG_VALUE)),
      \* empty name cell, url and author of blanks only
      Row(NaN, NaN, NaN, Blank, Blank, OldLatest, OldFileId,
          Str(FLAG_VALUE)),
      \* CurseForge identifier present
      Row(ExampleMod, Str(<<" ", "C", "u", "r", "s", "e", "F", "o", "r", "g",
                           "e">>),
          Str(<<"1", "2">>), OldUrl, NaN, OldLatest, OldFileId,
          Str(FLAG_VALUE)),
      \* CurseForge identifier that int() rejects
      Row(ExampleMod, Str(CurseForge), Str(<<"1", "2", ".", "0">>), NaN, NaN,
          NaN, NaN, Str(FLAG_VALUE)) }

Tables == UNION {[1..n -> InputRows] : n \in 1..MaxRows}

\* df[col].astype("string") on one cell
astype_string(v) == IF isna(v) THEN NA ELSE Str(PyStr(v))

\* lines 318-331 on one row
Normalized(r) ==
    [r EXCEPT !.project_id = astype_string(r.project_id),
              !.file_id = astype_string(r.file_id),
              !.source = astype_string(r.source),
              !.latest_version_available =
                  astype_string(r.latest_version_available),
              !.compatibility_flag = astype_string(r.compatibility_flag)]

\* what is recorded of row i's processing
NoHist ==
    [status |-> "pending", cf_search |-> 0, mr_search |-> 0, cf_files |-> 0,
     mr_files |-> 0, cf_hit |-> FALSE, mr_hit |-> FALSE, resolver |-> "no", match |-> None,
     selector |-> "no", found |-> <<None, None>>]

-----------------------------------------------------------------------------
(* Responses the providers give in a run *)

\* a CurseForge hit with a website link and no author listed
CfHit ==
    [id |-> PyInt(345),
     links |-> [websiteUrl |-> Str(<<"h", "t", "t", "p", ":", "/", "/", "c", "f">>)],
     authors |-> <<>>]

\* a Modrinth hit with a slug and an author
MrHit ==
    [project_id |-> Str(<<"a", "b", "c", "1", "2", "3">>),
     slug |-> Str(<<"e", "x", "a", "m", "p", "l", "e", "-", "m", "o", "d">>),
     author |-> Str(<<"J", "a", "n", "e">>)]

CfSearchResponses == {Raises, Ok(<<>>), Ok(<<CfHit>>)}

MrSearchResponses == {Raises, Ok(<<>>), Ok(<<MrHit>>)}

V1182 == Str(<<"1", ".", "1", "8", ".", "2">>)

V1213 == Str(<<"1", ".", "2", "1", ".", "3">>)

V1204 == Str(<<"1", ".", "2", "0", ".", "4">>)

VForge == Str(<<"F", "o", "r", "g", "e">>)

\* game version lists of the files of a project
GvResponses == {<<<<V1182, V1213>>>>, <<<<VForge, V1204>>, <<VForge>>>>}

\* CurseForge files carrying the game version lists gl, ids are ints
CfFiles(gl) ==
    [j \in 1..Len(gl) |-> [id |-> PyInt(9000 + j), gameVersions |-> gl[j]]]

\* Modrinth versions carrying the game version lists gl, ids are strings
MrVersions(gl) ==
    [j \in 1..Len(gl) |-> [id |-> Str(<<"v", Digits[j + 1]>>),
                           game_versions |-> gl[j]]]

CfFilesResponses == {Raises} \cup {Ok(CfFiles(gl)) : gl \in GvResponses}

MrVersionsResponses == {Raises} \cup {Ok(MrVersions(gl)) : gl \in GvResponses}

-----------------------------------------------------------------------------
(* main() *)

Init ==
    /\ CURSEFORGE_API_KEY \in {Str(<<>>), Str(<<"k", "e", "y">>)}
    /\ input \in Tables
    /\ df = <<>>
    /\ pc = "start"
    /\ idx = 0
    /\ source = <<>>
    /\ project_id = <<>>
    /\ match = None
    /\ latest_mc = None
    /\ best_file_id = None
    /\ output = <<>>
    /\ writes = 0
    /\ hist = <<>>
    /\ files = <<>>
    /\ selected = None

Locals == <<source, project_id, match, latest_mc, best_file_id>>

SelVars == <<files, selected>>

\* line 308 and lines 312-331: the table is loaded and its columns normalised
ReadCsv ==
    /\ pc = "start"
    /\ df' = [i \in 1..Len(input) |-> Normalized(input[i])]
    /\ hist' = [i \in 1..Len(input) |-> NoHist]
    /\ idx' = 1
    /\ pc' = "row"
    /\ UNCHANGED <<CURSEFORGE_API_KEY, input, Locals, output, writes, SelVars>>

\* the process ends on an error: its memory is gone, the files stay
Terminated ==
    /\ pc' = "failed"
    /\ df' = <<>>
    /\ idx' = 0
    /\ source' = <<>>
    /\ project_id' = <<>>
    /\ match' = None
    /\ latest_mc' = None
    /\ best_file_id' = None
    /\ hist' = <<>>
    /\ UNCHANGED <<CURSEFORGE_API_KEY, input, output, writes, SelVars>>

\* line 308: read_csv raises and the run ends
ReadFail ==
    /\ pc = "start"
    /\ Terminated

\* line 334: the for loop has run out of rows, off by one
LoopDone_one_early == idx >= Len(df)

\* line 334: the for loop has run out of rows
LoopDone == idx > Len(df)

\* line 335: mod_name
mod_name(row) == Strip(PyStr(PyOr(row.mod_name, Str(<<>>))))

\* lines 335-337: a row without a name is passed over
SkipRow ==
    /\ pc = "row"
    /\ ~LoopDone
    /\ mod_name(df[idx]) = <<>>
    /\ hist' = [hist EXCEPT ![idx].status = "skipped"]
    /\ idx' = idx + 1
    /\ UNCHANGED <<CURSEFORGE_API_KEY, input, df, pc, Locals, output, writes,
                   SelVars>>

\* lines 339-351: str(raw).strip(), "" for a missing value
CellText(raw) == IF isna(raw) THEN <<>> ELSE Strip(PyStr(raw))

\* line 354: not project_id or project_id.lower() in ("nan", "none", "")
IdMissing(pid) ==
    \/ pid = <<>>
    \/ Lower(pid) \in {<<"n", "a", "n">>, <<"n", "o", "n", "e">>, <<>>}

\* line 371: project_id and project_id.lower() not in ("nan", "none")
IdUsable(pid) ==
    /\ pid # <<>>
    /\ Lower(pid) \notin {<<"n", "a", "n">>, <<"n", "o", "n", "e">>}

\* lines 335-354: the locals of a named row are set
BeginRow ==
    /\ pc = "row"
    /\ ~LoopDone
    /\ mod_name(df[idx]) # <<>>
    /\ source' = CellText(df[idx].source)
    /\ project_id' = CellText(df[idx].project_id)
    /\ pc' = IF IdMissing(project_id') THEN "resolve" ELSE "select"
    /\ hist' = [hist EXCEPT ![idx].status = "begun"]
    /\ UNCHANGED <<CURSEFORGE_API_KEY, input, df, idx, match, latest_mc,
                   best_file_id, output, writes, SelVars>>

\* lines 216-227: a raise in the CurseForge search ends the resolver
AfterCfSearch_raise_returns(r) ==
    IF r.raised \/ r.value # None THEN "apply" ELSE "fallback"

\* lines 216-227: the resolver goes on to Modrinth even after a hit
AfterCfSearch_never_returns(r) == "fallback"

\* lines 216-227: a hit returns, no hit and a raise fall through to Modrinth
AfterCfSearch(r) ==
    IF ~r.raised /\ r.value # None THEN "apply" ELSE "fallback"

\* lines 213-227: find_project_if_missing asks CurseForge
CfSearch ==
    /\ pc = "resolve"
    /\ curseforge_enabled
    /\ \E resp \in CfSearchResponses :
          LET r == cf_search_mod(resp)
          IN  /\ hist' = [hist EXCEPT
                    ![idx].cf_search = @ + 1,
                    ![idx].cf_hit = resp.ok /\ resp.data # <<>>]
              /\ match' = IF ~r.raised /\ r.value # None
                          THEN CfMatch(r.value) ELSE None
              /\ pc' = AfterCfSearch(r)
    /\ UNCHANGED <<CURSEFORGE_API_KEY, input, df, idx, source, project_id,
                   latest_mc, best_file_id, output, writes, SelVars>>

\* lines 229-244: find_project_if_missing asks Modrinth
MrSearch ==
    /\ \/ pc = "fallback"
       \/ pc = "resolve" /\ ~curseforge_enabled
    /\ \E resp \in MrSearchResponses :
          LET r == mr_search_mod(resp)
          IN  /\ hist' = [hist EXCEPT
                    ![idx].mr_search = @ + 1,
                    ![idx].mr_hit = resp.ok /\ resp.data # <<>>]
              /\ match' = IF ~r.raised /\ r.value # None
                          THEN MrMatch(r.value) ELSE None
    /\ pc' = "apply"
    /\ UNCHANGED <<CURSEFORGE_API_KEY, input, df, idx, source, project_id,
                   latest_mc, best_file_id, output, writes, SelVars>>

\* a fill that overwrites whatever the cell holds
FillIfBlank_always(old, new) == IF Truthy(new) THEN new ELSE old

\* lines 363-366: if not str(row.get(col) or "").strip() and new: cell = new
FillIfBlank(old, new) ==
    IF Strip(PyStr(PyOr(old, Str(<<>>)))) = <<>> /\ Truthy(new)
    THEN new ELSE old

\* lines 355-366: the match, if any, is written to the row
ApplyMatch ==
    /\ pc = "apply"
    /\ hist' = [hist EXCEPT ![idx].resolver = "returned", ![idx].match = match]
    /\ IF match # None
       THEN /\ df' = [df EXCEPT
                  ![idx].source = Str(match.source),
                  ![idx].project_id = Str(match.project_id),
                  ![idx].url = FillIfBlank(@, match.url),
                  ![idx].author = FillIfBlank(@, match.author)]
            /\ source' = match.source
            /\ project_id' = match.project_id
       ELSE UNCHANGED <<df, source, project_id>>
    /\ pc' = "select"
    /\ UNCHANGED <<CURSEFORGE_API_KEY, input, idx, match, latest_mc,
                   best_file_id, output, writes, SelVars>>

\* lines 369-375: the version selector is called inside try/except
Select ==
    /\ pc = "select"
    /\ IF IdUsable(project_id)
       THEN \E resp \in (IF source = CurseForge /\ curseforge_enabled
                         THEN CfFilesResponses ELSE MrVersionsResponses) :
               LET r == get_latest_mc_and_file_id(source, project_id, resp)
                   got == IF r.raised THEN <<None, None>> ELSE r.value
               IN  /\ latest_mc' = got[1]
                   /\ best_file_id' = got[2]
                   /\ hist' = [hist EXCEPT
                         ![idx].selector =
                             IF r.raised THEN "raised" ELSE "returned",
                         ![idx].found = got,
                         ![idx].cf_files =
                             IF r.call = "cf" THEN @ + 1 ELSE @,
                         ![idx].mr_files =
                             IF r.call = "mr" THEN @ + 1 ELSE @]
       ELSE /\ latest_mc' = None
            /\ best_file_id' = None
            /\ UNCHANGED hist
    /\ pc' = "finish"
    /\ UNCHANGED <<CURSEFORGE_API_KEY, input, df, idx, source, project_id,
                   match, output, writes, SelVars>>

\* a write that blanks the cell when nothing was found
KeepUnlessFound_blanking(old, new) == IF Truthy(new) THEN new ELSE NA

\* lines 377-381: if new: cell = new
KeepUnlessFound(old, new) == IF Truthy(new) THEN new ELSE old

\* line 384: "1.21.x" if supports_flag(latest_mc) else None, in a string column
Flag(latest) == IF supports_flag(latest) THEN Str(FLAG_VALUE) ELSE NA

\* lines 377-387: the row's derived cells are written and the loop moves on;
\* every local is assigned again before it is read in the next iteration
Finish ==
    /\ pc = "finish"
    /\ df' = [df EXCEPT
          ![idx].latest_version_available = KeepUnlessFound(@, latest_mc),
          ![idx].file_id = KeepUnlessFound(@, best_file_id),
          ![idx].compatibility_flag = Flag(latest_mc)]
    /\ hist' = [hist EXCEPT ![idx].status = "processed"]
    /\ idx' = idx + 1
    /\ pc' = "row"
    /\ source' = <<>>
    /\ project_id' = <<>>
    /\ match' = None
    /\ latest_mc' = None
    /\ best_file_id' = None
    /\ UNCHANGED <<CURSEFORGE_API_KEY, input, output, writes, SelVars>>

\* lines 334-387: an error no handler catches ends the run inside the loop
Abort ==
    /\ pc \in {"row", "resolve", "fallback", "apply", "select", "finish"}
    /\ ~LoopDone
    /\ Terminated

\* lines 390-392: the table is written
WriteCsv ==
    /\ pc = "row"
    /\ LoopDone
    /\ output' = df
    /\ writes' = writes + 1
    /\ pc' = "done"
    /\ UNCHANGED <<CURSEFORGE_API_KEY, input, df, idx, Locals, hist, SelVars>>

\* line 392: to_csv cannot open the output file and the run ends
WriteFail ==
    /\ pc = "row"
    /\ LoopDone
    /\ Terminated

Next ==
    \/ ReadCsv
    \/ ReadFail
    \/ SkipRow
    \/ BeginRow
    \/ CfSearch
    \/ MrSearch
    \/ ApplyMatch
    \/ Select
    \/ Finish
    \/ Abort
    \/ WriteCsv
    \/ WriteFail

Spec == Init /\ [][Next]_vars

-----------------------------------------------------------------------------
(* The version selector on its own: every list of files a provider can      *)
(* return within the bounds, through both branches of the selector          *)

MaxRecs == 2

MaxGvs == 2

VersionStrings ==
    {Str(<<"1", ".", "2", "1">>), Str(<<"1", ".", "2", "1", ".", "0">>),
     Str(<<"1", ".", "9">>), Str(<<"F", "o", "r", "g", "e">>)}

\* the game versions of one file: no version is listed twice
GvLists ==
    {g \in UNION {[1..n -> VersionStrings] : n \in 0..MaxGvs} :
        \A i, j \in 1..Len(g) : i # j => g[i] # g[j]}

FileLists == UNION {[1..n -> GvLists] : n \in 0..MaxRecs}

InitSel ==
    /\ CURSEFORGE_API_KEY = Str(<<"k", "e", "y">>)
    /\ input = <<>>
    /\ df = <<>>
    /\ pc = "selector"
    /\ idx = 0
    /\ source = <<>>
    /\ project_id = <<>>
    /\ match = None
    /\ latest_mc = None
    /\ best_file_id = None
    /\ output = <<>>
    /\ writes = 0
    /\ hist = <<>>
    /\ files \in FileLists
    /\ selected = None

\* lines 253-276: the selector on a CurseForge project with the files listed
SelectCurseForge ==
    /\ pc = "selector"
    /\ selected = None
    /\ selected' =
          [fs |-> CfFiles(files),
           out |-> get_latest_mc_and_file_id(CurseForge, <<"1", "2">>,
                                             Ok(CfFiles(files)))]
    /\ UNCHANGED <<CURSEFORGE_API_KEY, input, df, pc, idx, Locals, output,
                   writes, hist, files>>

\* lines 278-299: the selector on a Modrinth project with the versions listed
SelectModrinth ==
    /\ pc = "selector"
    /\ selected = None
    /\ selected' =
          [fs |-> MrVersions(files),
           out |-> get_latest_mc_and_file_id(Modrinth, <<"P", "1">>,
                                             Ok(MrVersions(files)))]
    /\ UNCHANGED <<CURSEFORGE_API_KEY, input, df, pc, idx, Locals, output,
                   writes, hist, files>>

NextSel ==
    \/ SelectCurseForge
    \/ SelectModrinth

SpecSel == InitSel /\ [][NextSel]_vars

-----------------------------------------------------------------------------
(* Properties *)

\* the order on version triples, written out
TripleLeq(a, b) ==
    \/ a[1] < b[1]
    \/ a[1] = b[1] /\ a[2] < b[2]
    \/ a[1] = b[1] /\ a[2] = b[2] /\ a[3] <= b[3]

\* the triples of the version strings of one file that parse
TriplesOf(f) ==
    {parse_mc_version(GameVersions(f)[i]) : i \in 1..Len(GameVersions(f))}
        \ {None}

\* the greatest triples of T: one, or none when T is empty
Top(T) == {t \in T : \A u \in T : TripleLeq(u.t, t.t)}

\* the files of the list that carry the greatest triple of the whole list
TopHolders(fs) ==
    LET tr == [j \in 1..Len(fs) |-> TriplesOf(fs[j])]
        top == Top(UNION {tr[j] : j \in 1..Len(fs)})
    IN  {j \in 1..Len(fs) : tr[j] \cap top # {}}

\* the version meets the threshold 1.21 on (major, minor)
MeetsThreshold(v) ==
    /\ v # None
    /\ parse_mc_version(v) # None
    /\ LET t == parse_mc_version(v).t
       IN  t[1] > 1 \/ (t[1] = 1 /\ t[2] >= 21)

ExpectedFlag(v) == IF MeetsThreshold(v) THEN Str(FLAG_VALUE) ELSE NA

\* a cell that is empty or holds blanks only
BlankCell(v) == isna(v) \/ (IsStr(v) /\ Strip(v.s) = <<>>)

NoCalls(h) ==
    h.cf_search = 0 /\ h.mr_search = 0 /\ h.cf_files = 0 /\ h.mr_files = 0

\* C6: the selector returns a version string whose triple is the greatest of
\* all parsable version strings of all files, taken from the first file in
\* list order that carries that triple, together with that file's id; with no
\* parsable version string it returns (None, None).
C6_SelectorPicksFirstTop ==
    selected # None =>
        LET fs == selected.fs
            out == selected.out
            holders == TopHolders(fs)
        IN  /\ ~out.raised
            /\ IF holders = {}
               THEN out.value = <<None, None>>
               ELSE LET j == CHOOSE h \in holders : \A g \in holders : h <= g
                    IN  /\ out.value[2] = Str(PyStr(fs[j].id))
                        /\ \E i \in 1..Len(GameVersions(fs[j])) :
                              out.value[1] = GameVersions(fs[j])[i]
                        /\ parse_mc_version(out.value[1])
                               \in Top(TriplesOf(fs[j]))

\* two files tie on the greatest version and the first one was returned
C6_Witness ==
    /\ selected # None
    /\ Len(selected.fs) = 2
    /\ TopHolders(selected.fs) = {1, 2}
    /\ Len(GameVersions(selected.fs[1])) = 2
    /\ selected.out.value[2] = Str(PyStr(selected.fs[1].id))

\* C1 as stated: after a completed run every record of the output has the
\* flag "1.21.x" exactly when a version was found for it in this run and it
\* meets the threshold, and no flag otherwise.
C1_FlagOfEveryRecord ==
    pc = "done" =>
        \A i \in 1..Len(output) :
            output[i].compatibility_flag = ExpectedFlag(hist[i].found[1])

\* C1 amended: after a completed run every record the loop did not pass over
\* has the flag "1.21.x" exactly when a version was found for it in this run
\* and it meets the threshold, and no flag otherwise, whatever the input
\* held; a record passed over for its blank name keeps the flag of the input.
C1_FlagOfProcessedRecord ==
    pc = "done" =>
        \A i \in 1..Len(output) :
            IF hist[i].status = "processed"
            THEN output[i].compatibility_flag = ExpectedFlag(hist[i].found[1])
            ELSE output[i].compatibility_flag =
                     Normalized(input[i]).compatibility_flag

\* a run ended with a record whose stale flag was removed and a record whose
\* flag was set
C1_Witness ==
    /\ pc = "done"
    /\ \E i, j \in 1..Len(output) :
          /\ hist[i].status = "processed"
          /\ input[i].compatibility_flag = Str(FLAG_VALUE)
          /\ output[i].compatibility_flag = NA
          /\ hist[i].found[1] # None
          /\ hist[j].status = "processed"
          /\ input[j].compatibility_flag = NaN
          /\ output[j].compatibility_flag = Str(FLAG_VALUE)

\* C2: a named record with blank source, project id, url and author, for
\* which the resolver returned a match with url and author and the selector
\* found a version, ends with the match's source, project id, url and
\* author, the version found, the id of the file it came from and the flag
\* of that version.
C2_BlankRecordFilled ==
    pc = "done" =>
        \A i \in 1..Len(output) :
            (/\ ~BlankCell(input[i].mod_name)
             /\ BlankCell(input[i].source)
             /\ BlankCell(input[i].project_id)
             /\ BlankCell(input[i].url)
             /\ BlankCell(input[i].author)
             /\ hist[i].match # None
             /\ Truthy(hist[i].match.url)
             /\ Truthy(hist[i].match.author)
             /\ hist[i].found[1] # None)
            =>    /\ output[i].source = Str(hist[i].match.source)
                  /\ output[i].project_id = Str(hist[i].match.project_id)
                  /\ output[i].url = hist[i].match.url
                  /\ output[i].author = hist[i].match.author
                  /\ output[i].latest_version_available = hist[i].found[1]
                  /\ output[i].file_id = hist[i].found[2]
                  /\ output[i].compatibility_flag =
                         ExpectedFlag(hist[i].found[1])

\* C3: a record whose name cell is empty or blank is passed over: no search
\* or list call is made for it and it is written as it was read.
C3_BlankNamePassedOver ==
    \A i \in 1..Len(hist) :
        BlankCell(input[i].mod_name) =>
            /\ hist[i].status \in {"pending", "skipped"}
            /\ NoCalls(hist[i])
            /\ df[i] = Normalized(input[i])
            /\ pc = "done" => output[i] = Normalized(input[i])

C5_FallbackOnce ==
    \A i \in 1..Len(hist) :
        /\ hist[i].mr_search <= 1
        /\ hist[i].cf_search <= 1
        /\ (hist[i].resolver = "returned" /\ ~hist[i].cf_hit) =>
               /\ hist[i].mr_search = 1
               /\ hist[i].cf_search = 1 <=> CURSEFORGE_API_KEY # Str(<<>>)
               /\ ~hist[i].mr_hit =>
                      /\ hist[i].match = None
                      /\ hist[i].cf_files = 0
                      /\ hist[i].mr_files = 0
               /\ hist[i].mr_hit =>
                      /\ hist[i].match # None
                      /\ hist[i].match.source = Modrinth

\* CurseForge was searched without a hit, Modrinth was searched once without
\* a hit, and the record was finished without a match
C5_Witness ==
    \E i \in 1..Len(hist) :
        /\ hist[i].cf_search = 1
        /\ ~hist[i].cf_hit
        /\ hist[i].mr_search = 1
        /\ ~hist[i].mr_hit
        /\ hist[i].resolver = "returned"
        /\ hist[i].match = None
        /\ hist[i].status = "processed"

\* a url or author cell that holds text
HasText(v) == IsStr(v) /\ Strip(v.s) # <<>>

\* C7: a url (author) cell that holds text in the input holds the same text
\* in the table and in the output, also when the resolver returned a match
\* for the record; the match's source and project id are written.
C7_TextKept ==
    \A i \in 1..Len(df) :
        /\ HasText(input[i].url) => df[i].url = input[i].url
        /\ HasText(input[i].author) => df[i].author = input[i].author
        /\ (hist[i].resolver = "returned" /\ hist[i].match # None) =>
               /\ df[i].source = Str(hist[i].match.source)
               /\ df[i].project_id = Str(hist[i].match.project_id)
        /\ pc = "done" => output[i] = df[i]

\* a run ended with a record that kept its url and author although the
\* resolver returned a match with another url and author
C7_Witness ==
    /\ pc = "done"
    /\ \E i \in 1..Len(output) :
          /\ HasText(input[i].url)
          /\ HasText(input[i].author)
          /\ hist[i].match # None
          /\ Truthy(hist[i].match.url)
          /\ Truthy(hist[i].match.author)
          /\ hist[i].match.url # input[i].url
          /\ hist[i].match.author # input[i].author
          /\ output[i].url = input[i].url
          /\ output[i].source = Str(hist[i].match.source)

Handled(h) == h.status \in {"skipped", "processed"}

\* the records are handled in input order, and the table is written once,
\* when all are handled, or not at all
C8_State ==
    /\ writes <= 1
    /\ writes = 1 <=> pc = "done"
    /\ pc = "done" =>
           /\ output = df
           /\ Len(output) = Len(input)
           /\ \A i \in 1..Len(hist) : Handled(hist[i])
    /\ pc # "done" => output = <<>>
    /\ \A i \in 1..Len(hist) :
           /\ i < idx => Handled(hist[i])
           /\ i > idx => hist[i] = NoHist /\ df[i] = Normalized(input[i])

\* C8: the output is written at most once and only when every record has
\* been handled, in input order; a run that ends on an error has written
\* nothing; nothing happens after the write.
C8_WriteOnceAtEnd ==
    /\ []C8_State
    /\ [][/\ pc = "done" => UNCHANGED vars
          /\ pc = "failed" => UNCHANGED vars
          /\ writes' >= writes]_vars

\* a run wrote a table of two handled records
C8_Witness ==
    /\ pc = "done"
    /\ writes = 1
    /\ Len(output) >= 2
    /\ hist[1].status = "processed"
    /\ hist[2].status = "processed"

\* C9: without a credential no CurseForge search and no CurseForge file
\* list is ever called, also for a record that names CurseForge and a
\* project id, and the resolver searches Modrinth.
C9_NoCredentialNoCurseForge ==
    CURSEFORGE_API_KEY = Str(<<>>) =>
        \A i \in 1..Len(hist) :
            /\ hist[i].cf_search = 0
            /\ hist[i].cf_files = 0
            /\ ~hist[i].cf_hit
            /\ hist[i].resolver = "returned" => hist[i].mr_search = 1

\* a run without a credential ended with a CurseForge record processed and a
\* record resolved on Modrinth
C9_Witness ==
    /\ CURSEFORGE_API_KEY = Str(<<>>)
    /\ pc = "done"
    /\ \E i, j \in 1..Len(hist) :
          /\ CellText(input[i].source) = CurseForge
          /\ IdUsable(CellText(input[i].project_id))
          /\ hist[i].status = "processed"
          /\ hist[j].mr_hit
          /\ hist[j].status = "processed"

\* C10: a record whose selector call raised is finished like any other: the
\* loop has moved on, its flag is absent, its latest version and file id are
\* those of the input, and a source and project id the resolver wrote stay;
\* the table that is written holds the record so.
C10_RaiseIsNoVersion ==
    \A i \in 1..Len(hist) :
        (hist[i].selector = "raised" /\ hist[i].status = "processed") =>
            /\ idx > i
            /\ pc \in {"row", "resolve", "fallback", "apply", "select",
                       "finish", "done"}
            /\ hist[i].found = <<None, None>>
            /\ df[i].compatibility_flag = NA
            /\ df[i].latest_version_available =
                   Normalized(input[i]).latest_version_available
            /\ df[i].file_id = Normalized(input[i]).file_id
            /\ hist[i].match # None =>
                   /\ df[i].source = Str(hist[i].match.source)
                   /\ df[i].project_id = Str(hist[i].match.project_id)
            /\ pc = "done" => output[i] = df[i]

\* a run ended in which the list call raised for a record the resolver had
\* matched and whose input had a latest version, and the next record got a
\* version
C10_Witness ==
    /\ pc = "done"
    /\ Len(hist) >= 2
    /\ hist[1].selector = "raised"
    /\ hist[1].match # None
    /\ input[1].latest_version_available # NaN
    /\ output[1].latest_version_available = input[1].latest_version_available
    /\ output[1].compatibility_flag = NA
    /\ hist[2].found[1] # None

====
